---- MODULE Spec2Model ----
(***************************************************************************)
(* The SH-4 code cache of redream (src/src/hw/sh4/sh4_code_cache.cc):      *)
(* the dispatch table, the forward and reverse block indexes, the backend  *)
(* code buffer and the compile / remove / unlink / clear / fastmem-fault   *)
(* operations, each modelled as one atomic step of the single execution    *)
(* thread; and the SH-4 frontend (sh4_frontend.c, src/unnamed/part_000):   *)
(* the analysis that slices a block out of guest memory and the            *)
(* translation that emits its IR, one loop iteration a step.               *)
(***************************************************************************)
EXTENDS Integers, Sequences, FiniteSets, TLC

(***************************************************************************)
(* Bounds of the model.                                                    *)
(***************************************************************************)
\* number of dispatch slots (MAX_BLOCKS of the header, scaled down)
MAX_BLOCKS == 2
\* size in bytes of the backend's code buffer
BufSize == 2
\* number of 16-bit words of the guest address space the frontend reads
MemWords == 3
\* width in bits of int and of uint32_t in the comparators, scaled from 32
IntBits == 4

(***************************************************************************)
(* Values.                                                                 *)
(***************************************************************************)
\* a null pointer: a null rb_node_t* / sh4_block_t* / host address
NULL == -1
\* the default trampoline, a code pointer outside the code buffer
default_code == -2

SH4_FASTMEM == "FASTMEM"
SH4_SLOWMEM == "SLOWMEM"

\* guest instruction addresses the JIT covers: 2-byte aligned
GuestAddrs == {2 * i : i \in 0 .. (MAX_BLOCKS - 1)}
\* guest byte addresses a store can hit (any alignment)
GuestBytes == 0 .. (2 * MAX_BLOCKS - 1)
\* guest_size values the frontend's analysis can produce
GuestSizes == {2, 4}
\* host_size values the assembler can produce; the last one never fits
HostSizes == {1, 2, BufSize + 1}
\* host program counters of a fault: the addresses of the code buffer
HostPCs == 0 .. (BufSize - 1)
\* flags a caller passes to compile
CallerFlags == {{}, {SH4_FASTMEM}}

\* the flags of an instruction descriptor (jit_opdef) the frontend reads
SH4_FLAG_INVALID == "INVALID"
SH4_FLAG_DELAYED == "DELAYED"
SH4_FLAG_BRANCH == "BRANCH"
SH4_FLAG_SET_FPSCR == "SET_FPSCR"
SH4_FLAG_SET_SR == "SET_SR"
\* the flag sets the descriptors of the guest words are drawn from
OpFlagSets ==
  {{}, {SH4_FLAG_INVALID}, {SH4_FLAG_DELAYED}, {SH4_FLAG_BRANCH},
   {SH4_FLAG_DELAYED, SH4_FLAG_BRANCH}, {SH4_FLAG_SET_FPSCR},
   {SH4_FLAG_SET_SR}}
\* the guest address space in bytes: uint32_t addresses, scaled down
AddrSpace == 2 * MemWords
\* the addresses a block can start at
BlockAddrs == {2 * i : i \in 0 .. (MemWords - 1)}
\* the IR operations the frontend tells apart
OP_BRANCH == "BRANCH"
OP_FALLBACK == "FALLBACK"
OP_OTHER == "OTHER"

\* block objects on the heap
BlockIds == 1 .. (MAX_BLOCKS + 1)
\* a freed (or never allocated) block object
NoBlock == [guest_addr |-> NULL, guest_size |-> 0, host_addr |-> NULL,
            host_size |-> 0, flags |-> {}]

VARIABLES
  code,            \* cache->code[MAX_BLOCKS], the dispatch table
  blocks,          \* cache->blocks, the forward index: block ids in tree order
  reverse_blocks,  \* cache->reverse_blocks, the reverse index, in tree order
  heap,            \* the sh4_block_t objects, by id
  cursor,          \* the backend's emission cursor in its code buffer
  last,            \* the operation that completed last, and what it returned
  fatal,           \* a CHECK failed: the process has aborted
  fault,           \* history of the fastmem faults, kept by SpecFault only
  space,           \* guest->space: the descriptor flags of each 16-bit word
  translate,       \* sh4_frontend_translate_code: its locals, the jit_block
                   \* it fills in and the IR it emits
  compare          \* one call of block_map_cmp: its two nodes and its result

\* the variables of the code cache
cache_vars == <<code, blocks, reverse_blocks, heap, cursor, last, fatal>>

\* the variables of the frontend
frontend_vars == <<space, translate>>

vars == <<code, blocks, reverse_blocks, heap, cursor, last, fatal, fault,
          space, translate, compare>>

\* the cache as one value, for the operators below
Cache == [code |-> code, blocks |-> blocks, reverse_blocks |-> reverse_blocks,
          heap |-> heap, cursor |-> cursor]

BLOCK_OFFSET(addr) == addr \div 2

(***************************************************************************)
(* The comparators of the two indexes.                                     *)
(***************************************************************************)
\* the values of uint32_t, and of int, at the width of the model
UINT32_MAX == 2 ^ IntBits - 1
INT32_MIN == 0 - 2 ^ (IntBits - 1)
\* the number of values of int
INT32_SIZE == 2 ^ IntBits

\* (int) of a 64-bit difference: its low IntBits bits, signed. CHECK_LT
\* (offset, MAX_BLOCKS) and the code buffer keep the addresses of the cache
\* within less than half of the width of each other, where the cast leaves
\* a difference as it is.
int(x) == ((x - INT32_MIN) % INT32_SIZE) + INT32_MIN

block_map_cmp(lhs, rhs) == int(lhs.guest_addr - rhs.guest_addr)

reverse_block_map_cmp(lhs, rhs) == int(lhs.host_addr - rhs.host_addr)

(***************************************************************************)
(* The ordered tree (core/rb_tree): a sequence of nodes in comparator      *)
(* order; a node is the id of the block that embeds it.                    *)
(***************************************************************************)
rb_first(tree) == IF Len(tree) = 0 THEN NULL ELSE tree[1]

rb_last(tree) == IF Len(tree) = 0 THEN NULL ELSE tree[Len(tree)]

rb_pos(tree, n) == CHOOSE i \in 1 .. Len(tree) : tree[i] = n

rb_next(tree, n) ==
  IF rb_pos(tree, n) = Len(tree) THEN NULL ELSE tree[rb_pos(tree, n) + 1]

rb_prev(tree, n) ==
  IF rb_pos(tree, n) = 1 THEN NULL ELSE tree[rb_pos(tree, n) - 1]

\* rb_upper_bound on the forward index: the first node the key compares less than
blocks_upper_bound(tree, h, search) ==
  LET above == {i \in 1 .. Len(tree) : block_map_cmp(search, h[tree[i]]) < 0}
  IN IF above = {} THEN NULL
     ELSE tree[CHOOSE i \in above : \A j \in above : i <= j]

\* rb_upper_bound on the reverse index
reverse_upper_bound(tree, h, search) ==
  LET above == {i \in 1 .. Len(tree) :
                  reverse_block_map_cmp(search, h[tree[i]]) < 0}
  IN IF above = {} THEN NULL
     ELSE tree[CHOOSE i \in above : \A j \in above : i <= j]

\* rb_find_entry on the forward index: the node that compares equal to the key
blocks_find_entry(tree, h, search) ==
  LET same == {i \in 1 .. Len(tree) : block_map_cmp(search, h[tree[i]]) = 0}
  IN IF same = {} THEN NULL
     ELSE tree[CHOOSE i \in same : \A j \in same : i <= j]

\* rb_insert into the forward index: after the nodes that do not compare greater
blocks_insert(tree, h, n) ==
  LET k == Cardinality({i \in 1 .. Len(tree) :
                          block_map_cmp(h[tree[i]], h[n]) <= 0})
  IN SubSeq(tree, 1, k) \o <<n>> \o SubSeq(tree, k + 1, Len(tree))

\* rb_insert into the reverse index
reverse_insert(tree, h, n) ==
  LET k == Cardinality({i \in 1 .. Len(tree) :
                          reverse_block_map_cmp(h[tree[i]], h[n]) <= 0})
  IN SubSeq(tree, 1, k) \o <<n>> \o SubSeq(tree, k + 1, Len(tree))

rb_unlink(tree, n) == SelectSeq(tree, LAMBDA m : m # n)

(***************************************************************************)
(* The backend (X64Backend): a bump allocator over one code buffer.        *)
(***************************************************************************)
\* AssembleCode: the host address of the emitted code (NULL on overflow)
\* and the cursor afterwards
AssembleCode(cur, host_size) ==
  IF cur + host_size > BufSize
    THEN [host_addr |-> NULL, cursor |-> cur]
    ELSE [host_addr |-> cur, cursor |-> cur + host_size]

\* Reset: the cursor afterwards
Reset == 0

\* HandleFastmemException can accept only a fault inside emitted code
CanHandleFastmem(cur, pc) == pc < cur

(***************************************************************************)
(* The cache operations.                                                   *)
(***************************************************************************)
sh4_cache_unlink_block(c, b) ==
  [c EXCEPT !.code[BLOCK_OFFSET(c.heap[b].guest_addr)] = default_code]

\* mutant: the block is removed but its dispatch slot is left as it is
sh4_cache_remove_block_keeps_slot(c, b) ==
  [c EXCEPT !.blocks = rb_unlink(c.blocks, b),
            !.reverse_blocks = rb_unlink(c.reverse_blocks, b),
            !.heap[b] = NoBlock]

\* mutant: removing a block hands its host bytes back to the backend
sh4_cache_remove_block_reclaims(c, b) ==
  LET u == sh4_cache_unlink_block(c, b)
  IN [u EXCEPT !.blocks = rb_unlink(u.blocks, b),
               !.reverse_blocks = rb_unlink(u.reverse_blocks, b),
               !.heap[b] = NoBlock,
               !.cursor = c.heap[b].host_addr]

sh4_cache_remove_block(c, b) ==
  LET u == sh4_cache_unlink_block(c, b)
  IN [u EXCEPT !.blocks = rb_unlink(u.blocks, b),
               !.reverse_blocks = rb_unlink(u.reverse_blocks, b),
               !.heap[b] = NoBlock]

sh4_cache_lookup_block(c, guest_addr) ==
  LET search == [guest_addr |-> guest_addr]
      first == rb_first(c.blocks)
      lst == rb_last(c.blocks)
      it == blocks_upper_bound(c.blocks, c.heap, search)
  IN IF it = first THEN NULL
     ELSE IF it # NULL THEN rb_prev(c.blocks, it) ELSE lst

sh4_cache_lookup_block_reverse(c, host_addr) ==
  LET search == [host_addr |-> host_addr]
      first == rb_first(c.reverse_blocks)
      lst == rb_last(c.reverse_blocks)
      rit == reverse_upper_bound(c.reverse_blocks, c.heap, search)
  IN IF rit = first THEN NULL
     ELSE IF rit # NULL THEN rb_prev(c.reverse_blocks, rit) ELSE lst

\* mutant: the lookup returns the nearest block at or below the address
sh4_cache_get_block_nearest(c, guest_addr) ==
  sh4_cache_lookup_block(c, guest_addr)

sh4_cache_get_block(c, guest_addr) ==
  blocks_find_entry(c.blocks, c.heap, [guest_addr |-> guest_addr])

\* mutant: only the nearest block at or below the address is removed
sh4_cache_remove_blocks_once(c, guest_addr) ==
  LET block == sh4_cache_lookup_block(c, guest_addr)
  IN IF block = NULL THEN c ELSE sh4_cache_remove_block(c, block)

RECURSIVE sh4_cache_remove_blocks(_, _)
sh4_cache_remove_blocks(c, guest_addr) ==
  LET block == sh4_cache_lookup_block(c, guest_addr)
  IN IF block = NULL THEN c
     ELSE sh4_cache_remove_blocks(sh4_cache_remove_block(c, block), guest_addr)

\* mutant: the loop removes each block instead of unlinking it
RECURSIVE unlink_from_removes(_, _)
unlink_from_removes(c, it) ==
  IF it = NULL THEN c
  ELSE LET next == rb_next(c.blocks, it)
       IN unlink_from_removes(sh4_cache_remove_block(c, it), next)

\* mutant: only the first block of the index is unlinked
sh4_cache_unlink_blocks_first(c) ==
  IF rb_first(c.blocks) = NULL THEN c
  ELSE sh4_cache_unlink_block(c, rb_first(c.blocks))

\* the loop of unlink_blocks, from node it on
RECURSIVE unlink_from(_, _)
unlink_from(c, it) ==
  IF it = NULL THEN c
  ELSE LET next == rb_next(c.blocks, it)
       IN unlink_from(sh4_cache_unlink_block(c, it), next)

sh4_cache_unlink_blocks(c) == unlink_from(c, rb_first(c.blocks))

\* the loop of clear_blocks, from node it on
RECURSIVE remove_from(_, _)
remove_from(c, it) ==
  IF it = NULL THEN c
  ELSE LET next == rb_next(c.blocks, it)
       IN remove_from(sh4_cache_remove_block(c, it), next)

\* mutant: the blocks are removed but the backend is not reset
sh4_cache_clear_blocks_no_reset(c) == remove_from(c, rb_first(c.blocks))

sh4_cache_clear_blocks(c) ==
  [remove_from(c, rb_first(c.blocks)) EXCEPT !.cursor = Reset]

\* calloc of a block object: some free object of the heap
calloc(h) ==
  CHOOSE b \in BlockIds :
    h[b] = NoBlock /\ \A a \in BlockIds : h[a] = NoBlock => b <= a

\* mutant: the stale block gives its flags but stays in the indexes
compile_merge_unlinked_keeps_stale(c, guest_addr, flags) ==
  LET unlinked == blocks_find_entry(c.blocks, c.heap,
                                    [guest_addr |-> guest_addr])
  IN IF unlinked # NULL
     THEN [cache |-> c, flags |-> flags \cup c.heap[unlinked].flags]
     ELSE [cache |-> c, flags |-> flags]

\* mutant: the stale block is removed but its flags are forgotten
compile_merge_unlinked_drops_flags(c, guest_addr, flags) ==
  LET unlinked == blocks_find_entry(c.blocks, c.heap,
                                    [guest_addr |-> guest_addr])
  IN IF unlinked # NULL
     THEN [cache |-> sh4_cache_remove_block(c, unlinked), flags |-> flags]
     ELSE [cache |-> c, flags |-> flags]

\* compile, the stale block: a block left at guest_addr by an earlier unlink
\* gives its flags to the new block and is removed. The cache and the flags
\* afterwards.
compile_merge_unlinked(c, guest_addr, flags) ==
  LET unlinked == blocks_find_entry(c.blocks, c.heap,
                                    [guest_addr |-> guest_addr])
  IN IF unlinked # NULL
     THEN [cache |-> sh4_cache_remove_block(c, unlinked),
           flags |-> flags \cup c.heap[unlinked].flags]
     ELSE [cache |-> c, flags |-> flags]

\* mutant: on overflow the backend is reset but the blocks are kept
compile_assemble_reset_only(c, host_size) ==
  LET a1 == AssembleCode(c.cursor, host_size)
  IN IF a1.host_addr # NULL
     THEN [cache |-> [c EXCEPT !.cursor = a1.cursor],
           host_addr |-> a1.host_addr, overflow |-> FALSE]
     ELSE LET a2 == AssembleCode(Reset, host_size)
          IN [cache |-> [c EXCEPT !.cursor = a2.cursor],
              host_addr |-> a2.host_addr, overflow |-> TRUE]

\* compile, the assembly: on overflow the cache is cleared and the assembly
\* tried once more. The cache afterwards, the host address (NULL when the
\* second try overflows too) and whether the first try overflowed.
compile_assemble(c, host_size) ==
  LET a1 == AssembleCode(c.cursor, host_size)
  IN IF a1.host_addr # NULL
     THEN [cache |-> [c EXCEPT !.cursor = a1.cursor],
           host_addr |-> a1.host_addr, overflow |-> FALSE]
     ELSE LET cleared == sh4_cache_clear_blocks(c)
              a2 == AssembleCode(cleared.cursor, host_size)
          IN [cache |-> [cleared EXCEPT !.cursor = a2.cursor],
              host_addr |-> a2.host_addr, overflow |-> TRUE]

\* mutant: the new block is not inserted into the reverse index
compile_insert_block_forward_only(c, guest_addr, guest_size, host_addr, host_size, flags) ==
  LET block == calloc(c.heap)
      h == [c.heap EXCEPT ![block] =
              [guest_addr |-> guest_addr, guest_size |-> guest_size,
               host_addr |-> host_addr, host_size |-> host_size,
               flags |-> flags]]
  IN [c EXCEPT !.heap = h,
               !.blocks = blocks_insert(c.blocks, h, block),
               !.code[BLOCK_OFFSET(guest_addr)] = h[block].host_addr]

\* mutant: the new block is inserted but the dispatch slot is not written
compile_insert_block_unlinked(c, guest_addr, guest_size, host_addr, host_size, flags) ==
  LET block == calloc(c.heap)
      h == [c.heap EXCEPT ![block] =
              [guest_addr |-> guest_addr, guest_size |-> guest_size,
               host_addr |-> host_addr, host_size |-> host_size,
               flags |-> flags]]
  IN [c EXCEPT !.heap = h,
               !.blocks = blocks_insert(c.blocks, h, block),
               !.reverse_blocks = reverse_insert(c.reverse_blocks, h, block)]

\* compile, the new block: allocated, filled in, inserted into both indexes
\* and linked into the dispatch table
compile_insert_block(c, guest_addr, guest_size, host_addr, host_size, flags) ==
  LET block == calloc(c.heap)
      h == [c.heap EXCEPT ![block] =
              [guest_addr |-> guest_addr, guest_size |-> guest_size,
               host_addr |-> host_addr, host_size |-> host_size,
               flags |-> flags]]
  IN [c EXCEPT !.heap = h,
               !.blocks = blocks_insert(c.blocks, h, block),
               !.reverse_blocks = reverse_insert(c.reverse_blocks, h, block),
               !.code[BLOCK_OFFSET(guest_addr)] = h[block].host_addr]

\* mutant: the slot is checked only after the stale block was merged
sh4_cache_compile_code_inner_late_check(c, guest_addr, flags, guest_size, host_size) ==
  LET offset == BLOCK_OFFSET(guest_addr)
      m == compile_merge_unlinked(c, guest_addr, flags)
  IN IF ~(offset < MAX_BLOCKS) \/ c.code[offset] # default_code
     THEN [cache |-> m.cache, ret |-> NULL, fatal |-> TRUE, overflow |-> FALSE]
     ELSE
       LET a == compile_assemble(m.cache, host_size)
       IN IF a.host_addr = NULL
          THEN [cache |-> a.cache, ret |-> NULL, fatal |-> TRUE,
                overflow |-> a.overflow]
          ELSE
            LET c3 == compile_insert_block(a.cache, guest_addr, guest_size,
                                           a.host_addr, host_size, m.flags)
            IN [cache |-> c3, ret |-> c3.code[offset], fatal |-> FALSE,
                overflow |-> a.overflow]

\* compile: the cache afterwards, the code pointer returned, whether a
\* CHECK failed, and whether the assembler overflowed. guest_size is what
\* the frontend's translation reports and host_size what the backend's
\* assembly of the IR takes.
sh4_cache_compile_code_inner(c, guest_addr, flags, guest_size, host_size) ==
  LET offset == BLOCK_OFFSET(guest_addr)
  IN IF ~(offset < MAX_BLOCKS) \/ c.code[offset] # default_code
     THEN [cache |-> c, ret |-> NULL, fatal |-> TRUE, overflow |-> FALSE]
     ELSE
       LET m == compile_merge_unlinked(c, guest_addr, flags)
           a == compile_assemble(m.cache, host_size)
       IN IF a.host_addr = NULL
          THEN [cache |-> a.cache, ret |-> NULL, fatal |-> TRUE,
                overflow |-> a.overflow]
          ELSE
            LET c3 == compile_insert_block(a.cache, guest_addr, guest_size,
                                           a.host_addr, host_size, m.flags)
            IN [cache |-> c3, ret |-> c3.code[offset], fatal |-> FALSE,
                overflow |-> a.overflow]

\* mutant: the handler unlinks the faulting block but leaves its flags
sh4_cache_handle_exception_unlink_only(c, pc, accept) ==
  LET block == sh4_cache_lookup_block_reverse(c, pc)
  IN IF block = NULL THEN [cache |-> c, ret |-> FALSE]
     ELSE IF ~accept THEN [cache |-> c, ret |-> FALSE]
     ELSE [cache |-> sh4_cache_unlink_block(c, block), ret |-> TRUE]

\* mutant: the handler removes the faulting block instead of unlinking it
sh4_cache_handle_exception_removes(c, pc, accept) ==
  LET block == sh4_cache_lookup_block_reverse(c, pc)
  IN IF block = NULL THEN [cache |-> c, ret |-> FALSE]
     ELSE IF ~accept THEN [cache |-> c, ret |-> FALSE]
     ELSE [cache |-> sh4_cache_remove_block(c, block), ret |-> TRUE]

\* the exception handler: the cache afterwards and the value returned.
\* accept is the answer of the backend's HandleFastmemException.
sh4_cache_handle_exception(c, pc, accept) ==
  LET block == sh4_cache_lookup_block_reverse(c, pc)
  IN IF block = NULL THEN [cache |-> c, ret |-> FALSE]
     ELSE IF ~accept THEN [cache |-> c, ret |-> FALSE]
     ELSE [cache |-> [sh4_cache_unlink_block(c, block) EXCEPT
                        !.heap[block].flags = @ \cup {SH4_SLOWMEM}],
           ret |-> TRUE]

(***************************************************************************)
(* The state machine.                                                      *)
(***************************************************************************)
\* what an operation leaves in last; a compile that returns also leaves the
\* flags it was called with and the sizes the frontend and backend reported,
\* and clear_blocks leaves whether it found anything to clear
Done(op, arg, ret, handled, overflow) ==
  [op |-> op, arg |-> arg, ret |-> ret, handled |-> handled,
   overflow |-> overflow, flags |-> {}, guest_size |-> 0, host_size |-> 0,
   changed |-> FALSE]

Commit(c) ==
  /\ code' = c.code
  /\ blocks' = c.blocks
  /\ reverse_blocks' = c.reverse_blocks
  /\ heap' = c.heap
  /\ cursor' = c.cursor

\* no fault handled yet. pending: the guest addresses of the blocks a handled
\* fault has unlinked and that were not compiled since; again: the last step
\* handled a fault of the block the step before it had handled a fault of;
\* redo: the last step compiled a pending address, "merged" when the faulted
\* block was still in the index and "lost" when it was not
NoFault == [pending |-> {}, again |-> FALSE, redo |-> "none"]

\* the frontend before translate_code is called
\* analyzed and emitted are history: the addresses at which the analysis has
\* begun an iteration and at which the emit callback has been called
NoTranslate ==
  [at |-> "idle", guest_addr |-> 0, guest_size |-> 0, num_instrs |-> 0,
   addr |-> 0, end |-> 0, ir |-> <<>>, analyzed |-> <<>>, emitted |-> <<>>]

\* no comparator is running
NoCompare == [at |-> "idle", lhs |-> NoBlock, rhs |-> NoBlock, ret |-> 0]

\* sh4_cache_create
Init ==
  /\ fault = NoFault
  /\ space = [w \in 0 .. (MemWords - 1) |-> {}]
  /\ translate = NoTranslate
  /\ compare = NoCompare
  /\ code = [i \in 0 .. (MAX_BLOCKS - 1) |-> default_code]
  /\ blocks = <<>>
  /\ reverse_blocks = <<>>
  /\ heap = [b \in BlockIds |-> NoBlock]
  /\ cursor = Reset
  /\ last = Done("create", NULL, NULL, FALSE, FALSE)
  /\ fatal = FALSE

CompileCode(guest_addr, flags, guest_size, host_size) ==
  /\ ~fatal
  /\ LET r == sh4_cache_compile_code_inner(Cache, guest_addr, flags,
                                           guest_size, host_size)
     IN /\ Commit(r.cache)
        /\ fatal' = r.fatal
        /\ last' = IF r.fatal
                     THEN Done("compile", guest_addr, r.ret, FALSE, r.overflow)
                     ELSE [Done("compile", guest_addr, r.ret, FALSE, r.overflow)
                             EXCEPT !.flags = flags,
                                    !.guest_size = guest_size,
                                    !.host_size = host_size]

RemoveBlocks(guest_addr) ==
  /\ ~fatal
  /\ Commit(sh4_cache_remove_blocks(Cache, guest_addr))
  /\ last' = Done("remove_blocks", guest_addr, NULL, FALSE, FALSE)
  /\ UNCHANGED fatal

UnlinkBlocks ==
  /\ ~fatal
  /\ Commit(sh4_cache_unlink_blocks(Cache))
  /\ last' = Done("unlink_blocks", NULL, NULL, FALSE, FALSE)
  /\ UNCHANGED fatal

ClearBlocks ==
  /\ ~fatal
  /\ Commit(sh4_cache_clear_blocks(Cache))
  /\ last' = [Done("clear_blocks", NULL, NULL, FALSE, FALSE)
               EXCEPT !.changed = sh4_cache_clear_blocks(Cache) # Cache]
  /\ UNCHANGED fatal

\* sh4_cache_get_block: ret is the block returned
GetBlock(guest_addr) ==
  /\ ~fatal
  /\ Commit(Cache)
  /\ last' = Done("get_block", guest_addr,
                  sh4_cache_get_block(Cache, guest_addr), FALSE, FALSE)
  /\ UNCHANGED fatal

HandleException(pc, accept) ==
  /\ ~fatal
  /\ accept => CanHandleFastmem(cursor, pc)
  /\ LET r == sh4_cache_handle_exception(Cache, pc, accept)
     IN /\ Commit(r.cache)
        /\ last' = Done("exception", pc, NULL, r.ret, FALSE)
  /\ UNCHANGED fatal

Next ==
  \/ \E a \in GuestAddrs, f \in CallerFlags, gs \in GuestSizes, hs \in HostSizes :
        CompileCode(a, f, gs, hs) /\ UNCHANGED <<fault, frontend_vars, compare>>
  \/ \E a \in GuestBytes : RemoveBlocks(a) /\ UNCHANGED <<fault, frontend_vars, compare>>
  \/ UnlinkBlocks /\ UNCHANGED <<fault, frontend_vars, compare>>
  \/ ClearBlocks /\ UNCHANGED <<fault, frontend_vars, compare>>
  \/ \E pc \in HostPCs, accept \in BOOLEAN :
        HandleException(pc, accept) /\ UNCHANGED <<fault, frontend_vars, compare>>

Spec == Init /\ [][Next]_vars

(***************************************************************************)
(* The same operations with the history of the fastmem faults kept: which  *)
(* blocks a handled fault has sent back to compile.                        *)
(***************************************************************************)
\* the history after compile(guest_addr)
FaultCompiled(guest_addr) ==
  IF fatal' THEN [fault EXCEPT !.again = FALSE, !.redo = "none"]
  ELSE [pending |-> fault.pending \ {guest_addr},
        again |-> FALSE,
        redo |-> IF guest_addr \notin fault.pending THEN "none"
                 ELSE IF sh4_cache_get_block(Cache, guest_addr) # NULL
                      THEN "merged" ELSE "lost"]

\* the history after the exception handler ran for pc
FaultHandled(pc) ==
  LET block == sh4_cache_lookup_block_reverse(Cache, pc)
  IN IF ~last'.handled THEN [fault EXCEPT !.again = FALSE, !.redo = "none"]
     ELSE [pending |-> fault.pending \cup {heap[block].guest_addr},
           again |-> /\ last.op = "exception"
                     /\ last.handled
                     /\ sh4_cache_lookup_block_reverse(Cache, last.arg) = block,
           redo |-> "none"]

\* the history after any other operation
FaultOther == [fault EXCEPT !.again = FALSE, !.redo = "none"]

\* the blocks are one instruction long: no operation of the cache reads
\* guest_size
NextFault ==
  \/ \E a \in GuestAddrs, f \in CallerFlags, hs \in HostSizes :
        /\ CompileCode(a, f, 2, hs)
        /\ fault' = FaultCompiled(a)
        /\ UNCHANGED <<frontend_vars, compare>>
  \/ \E a \in GuestBytes :
        RemoveBlocks(a) /\ fault' = FaultOther /\ UNCHANGED <<frontend_vars, compare>>
  \/ UnlinkBlocks /\ fault' = FaultOther /\ UNCHANGED <<frontend_vars, compare>>
  \/ ClearBlocks /\ fault' = FaultOther /\ UNCHANGED <<frontend_vars, compare>>
  \/ \E pc \in HostPCs, accept \in BOOLEAN :
        /\ HandleException(pc, accept)
        /\ fault' = FaultHandled(pc)
        /\ UNCHANGED <<frontend_vars, compare>>

SpecFault == Init /\ [][NextFault]_vars

(***************************************************************************)
(* The operations of the cache with the lookup of a block by its guest     *)
(* address among them. The blocks are compiled without caller flags.       *)
(***************************************************************************)
NextQuery ==
  \/ \E a \in GuestAddrs, gs \in GuestSizes, hs \in HostSizes :
        CompileCode(a, {}, gs, hs) /\ UNCHANGED <<fault, frontend_vars, compare>>
  \/ \E a \in GuestBytes : RemoveBlocks(a) /\ UNCHANGED <<fault, frontend_vars, compare>>
  \/ UnlinkBlocks /\ UNCHANGED <<fault, frontend_vars, compare>>
  \/ ClearBlocks /\ UNCHANGED <<fault, frontend_vars, compare>>
  \/ \E pc \in HostPCs, accept \in BOOLEAN :
        HandleException(pc, accept) /\ UNCHANGED <<fault, frontend_vars, compare>>
  \/ \E a \in GuestBytes : GetBlock(a) /\ UNCHANGED <<fault, frontend_vars, compare>>

SpecQuery == Init /\ [][NextQuery]_vars

(***************************************************************************)
(* The forward comparator on its own: any two blocks of the address width, *)
(* and one call of block_map_cmp on their nodes.                           *)
(***************************************************************************)
\* a block that is one instruction at guest_addr
BlockAt(guest_addr) == [NoBlock EXCEPT !.guest_addr = guest_addr,
                                       !.guest_size = 2]

BlockMapCmp ==
  /\ compare.at = "call"
  /\ compare' = [compare EXCEPT !.at = "return",
                                !.ret = block_map_cmp(compare.lhs, compare.rhs)]
  /\ UNCHANGED <<cache_vars, fault, frontend_vars>>

\* any pair of blocks, and a cache nobody calls
InitCmp ==
  /\ fault = NoFault
  /\ space = [w \in 0 .. (MemWords - 1) |-> {}]
  /\ translate = NoTranslate
  /\ \E l, r \in 0 .. UINT32_MAX :
        compare = [at |-> "call", lhs |-> BlockAt(l), rhs |-> BlockAt(r),
                   ret |-> 0]
  /\ code = [i \in 0 .. (MAX_BLOCKS - 1) |-> default_code]
  /\ blocks = <<>>
  /\ reverse_blocks = <<>>
  /\ heap = [b \in BlockIds |-> NoBlock]
  /\ cursor = Reset
  /\ last = Done("create", NULL, NULL, FALSE, FALSE)
  /\ fatal = FALSE

NextCmp == BlockMapCmp

SpecCmp == InitCmp /\ [][NextCmp]_vars

(***************************************************************************)
(* The frontend: sh4_analyze_block and sh4_frontend_translate_code.        *)
(* The cycle counts of the descriptors and the translation flags handed to *)
(* the emit callbacks steer nothing below and are left out.                *)
(***************************************************************************)
\* uint32_t arithmetic on guest addresses, at the width of the model
uint32_t(x) == x % AddrSpace

\* sh4_get_opdef(guest->r16(guest->space, addr))->flags
sh4_get_opdef(sp, a) == sp[uint32_t(a) \div 2]

\* the analysis gives up here: a block this long has walked the whole
\* address space twice without meeting an end
SizeCap == 2 * AddrSpace

\* mutant: the CHECK of the delay slot is missing
sh4_analyze_block_no_check(sp, t) ==
  LET def == sh4_get_opdef(sp, t.addr)
      delayed == SH4_FLAG_DELAYED \in def
      delay_def == sh4_get_opdef(sp, t.addr + 2)
      invalid == \/ SH4_FLAG_INVALID \in def
                 \/ delayed /\ SH4_FLAG_INVALID \in delay_def
      n == IF delayed THEN 2 ELSE 1
      t1 == [t EXCEPT !.addr = uint32_t(@ + 2 * n),
                      !.guest_size = @ + 2 * n,
                      !.num_instrs = @ + n]
  IN IF invalid
     THEN [t1 EXCEPT !.at = "analyzed"]
     ELSE IF def \cap {SH4_FLAG_BRANCH, SH4_FLAG_SET_FPSCR, SH4_FLAG_SET_SR} # {}
     THEN [t1 EXCEPT !.at = "analyzed"]
     ELSE t1

\* one iteration of the loop of sh4_analyze_block on the locals t
sh4_analyze_block(sp, t) ==
  LET def == sh4_get_opdef(sp, t.addr)
      delayed == SH4_FLAG_DELAYED \in def
      delay_def == sh4_get_opdef(sp, t.addr + 2)
      invalid == \/ SH4_FLAG_INVALID \in def
                 \/ delayed /\ SH4_FLAG_INVALID \in delay_def
      n == IF delayed THEN 2 ELSE 1
      t1 == [t EXCEPT !.addr = uint32_t(@ + 2 * n),
                      !.guest_size = @ + 2 * n,
                      !.num_instrs = @ + n]
  IN IF delayed /\ SH4_FLAG_DELAYED \in delay_def
     THEN [t1 EXCEPT !.at = "fatal"]
     ELSE IF invalid
     THEN [t1 EXCEPT !.at = "analyzed"]
     ELSE IF def \cap {SH4_FLAG_BRANCH, SH4_FLAG_SET_FPSCR, SH4_FLAG_SET_SR} # {}
     THEN [t1 EXCEPT !.at = "analyzed"]
     ELSE t1

\* an IR instruction: its op, for a fallback the descriptor flags of the
\* guest opcode it carries, for a branch to a constant the constant
ir_instr(op, def, target) == [op |-> op, def |-> def, target |-> target]

\* ir_branch(ir, ir_alloc_i32(ir, a))
ir_branch(a) == ir_instr(OP_BRANCH, {}, a)

\* what the emit callback of an instruction with descriptor def leaves as
\* the last IR instruction: a fallback carrying the opcode, for a branch
\* instruction possibly an unconditional branch to a computed target, and
\* for a valid instruction possibly some other op
sh4_get_translator(def) ==
  {ir_instr(OP_FALLBACK, def, NULL)}
    \cup (IF SH4_FLAG_INVALID \in def THEN {}
          ELSE {ir_instr(OP_OTHER, {}, NULL)})
    \cup (IF SH4_FLAG_BRANCH \in def THEN {ir_instr(OP_BRANCH, {}, NULL)}
          ELSE {})

\* the test of the tail instruction: an unconditional branch, or a fallback
\* whose opcode is a branch
ends_in_branch(tail_instr) ==
  \/ tail_instr.op = OP_BRANCH
  \/ tail_instr.op = OP_FALLBACK /\ SH4_FLAG_BRANCH \in tail_instr.def

\* translate_code is called for the block at guest_addr; the analysis starts
TranslateCode(guest_addr) ==
  /\ translate.at = "idle"
  /\ translate' = [NoTranslate EXCEPT !.at = "analyze",
                                      !.guest_addr = guest_addr,
                                      !.addr = guest_addr]
  /\ UNCHANGED space

\* one iteration of the loop of sh4_analyze_block
AnalyzeBlock ==
  /\ translate.at = "analyze"
  /\ translate.guest_size < SizeCap
  /\ translate' = [sh4_analyze_block(space, translate) EXCEPT
                     !.analyzed = Append(@, translate.addr)]
  /\ UNCHANGED space

\* the analysis has returned: addr and end of the emission walk
BeginEmit ==
  /\ translate.at = "analyzed"
  /\ translate' =
       [translate EXCEPT !.at = "emit",
                         !.addr = translate.guest_addr,
                         !.end = uint32_t(translate.guest_addr
                                            + translate.guest_size)]
  /\ UNCHANGED space

\* one iteration of the emission loop
Emit ==
  /\ translate.at = "emit"
  /\ translate.addr < translate.end
  /\ LET def == sh4_get_opdef(space, translate.addr)
     IN \E instr \in sh4_get_translator(def) :
          translate' =
            [translate EXCEPT
               !.ir = Append(@, instr),
               !.emitted = Append(@, translate.addr),
               !.addr = IF SH4_FLAG_DELAYED \in def
                        THEN uint32_t(@ + 4) ELSE uint32_t(@ + 2)]
  /\ UNCHANGED space

\* the end of translate_code: the fallthrough branch after a tail that is
\* no branch. With no IR emitted the tail instruction read is no
\* instruction at all: the test reads garbage and the branch, if one is
\* appended, hangs off it, or the process dies.
TailBranch ==
  /\ translate.at = "emit"
  /\ ~(translate.addr < translate.end)
  /\ IF translate.ir = <<>>
     THEN \E outcome \in {"none", "branch", "crash"} :
            translate' =
              IF outcome = "crash" THEN [translate EXCEPT !.at = "fatal"]
              ELSE IF outcome = "none" THEN [translate EXCEPT !.at = "done"]
              ELSE [translate EXCEPT !.at = "done",
                                     !.ir = <<ir_branch(translate.addr)>>]
     ELSE LET tail_instr == translate.ir[Len(translate.ir)]
          IN translate' =
               IF ends_in_branch(tail_instr)
               THEN [translate EXCEPT !.at = "done"]
               ELSE [translate EXCEPT
                       !.at = "done",
                       !.ir = Append(@, ir_branch(translate.addr))]
  /\ UNCHANGED space

\* any guest memory, and a cache nobody calls
InitFrontend ==
  /\ fault = NoFault
  /\ space \in [0 .. (MemWords - 1) -> OpFlagSets]
  /\ translate = NoTranslate
  /\ compare = NoCompare
  /\ code = [i \in 0 .. (MAX_BLOCKS - 1) |-> default_code]
  /\ blocks = <<>>
  /\ reverse_blocks = <<>>
  /\ heap = [b \in BlockIds |-> NoBlock]
  /\ cursor = Reset
  /\ last = Done("create", NULL, NULL, FALSE, FALSE)
  /\ fatal = FALSE

NextFrontend ==
  \/ \E a \in BlockAddrs : TranslateCode(a) /\ UNCHANGED <<cache_vars, fault, compare>>
  \/ AnalyzeBlock /\ UNCHANGED <<cache_vars, fault, compare>>
  \/ BeginEmit /\ UNCHANGED <<cache_vars, fault, compare>>
  \/ Emit /\ UNCHANGED <<cache_vars, fault, compare>>
  \/ TailBranch /\ UNCHANGED <<cache_vars, fault, compare>>

SpecFrontend == InitFrontend /\ [][NextFrontend]_vars

(***************************************************************************)
(* Vocabulary of the properties.                                           *)
(***************************************************************************)
Range(seq) == {seq[i] : i \in 1 .. Len(seq)}

\* the guest footprint of blk contains addr
Covers(blk, addr) ==
  blk.guest_addr <= addr /\ addr < blk.guest_addr + blk.guest_size

\* the host range of blk contains pc
HostCovers(blk, pc) ==
  blk.host_addr <= pc /\ pc < blk.host_addr + blk.host_size

\* the dispatch slot of block b
SlotOf(b) == code[BLOCK_OFFSET(heap[b].guest_addr)]

\* some emitted host byte belongs to no block of the indexes any more
Stranded ==
  \E pc \in 0 .. (cursor - 1) :
    \A b \in Range(reverse_blocks) : ~HostCovers(heap[b], pc)

(***************************************************************************)
(* The properties.                                                         *)
(***************************************************************************)
\* C1: for every block B of the forward index, the dispatch slot at
\* BLOCK_OFFSET(B.guest_addr) holds the default trampoline or B.host_addr,
\* never the host address of another or of a freed block.
C1_SlotOfEveryBlock ==
  \A b \in Range(blocks) :
    /\ heap[b] # NoBlock
    /\ SlotOf(b) \in {default_code, heap[b].host_addr}

\* C1 witness: a linked block next to a block a fastmem fault has unlinked
C1_Witness ==
  \E b1, b2 \in Range(blocks) :
    /\ SlotOf(b1) = heap[b1].host_addr
    /\ SlotOf(b2) = default_code
    /\ SH4_SLOWMEM \in heap[b2].flags

\* C2: every dispatch slot that is not the default trampoline holds the
\* host_addr of a block that is in the forward index and whose
\* BLOCK_OFFSET(guest_addr) is that slot.
C2_SlotsPointAtLiveBlocks ==
  \A i \in DOMAIN code :
    code[i] # default_code =>
      \E b \in Range(blocks) :
        /\ heap[b].host_addr = code[i]
        /\ BLOCK_OFFSET(heap[b].guest_addr) = i

\* C2 witness: remove_blocks has removed a block while another stays linked
C2_Witness ==
  /\ last.op = "remove_blocks"
  /\ Stranded
  /\ \E i \in DOMAIN code : code[i] # default_code

\* C3: the forward index and the reverse index hold the same set of blocks.
C3_IndexesAgree == Range(blocks) = Range(reverse_blocks)

\* C3 witness: blocks were inserted and one of them removed again
C3_Witness ==
  /\ Stranded
  /\ Len(blocks) >= 1
  /\ Len(reverse_blocks) >= 1
  /\ last.op = "exception"

\* C4: no two blocks of the forward index have the same guest_addr.
C4_UniqueGuestAddr ==
  \A i, j \in 1 .. Len(blocks) :
    i # j => heap[blocks[i]].guest_addr # heap[blocks[j]].guest_addr

\* C4 witness: compile, without overflow, has put a block at the address of
\* the stale block a fastmem fault left, and it is the only block there
C4_Witness ==
  /\ last.op = "compile"
  /\ ~fatal
  /\ ~last.overflow
  /\ \E i \in 1 .. Len(blocks) :
       /\ heap[blocks[i]].guest_addr = last.arg
       /\ SH4_SLOWMEM \in heap[blocks[i]].flags
       /\ \A j \in 1 .. Len(blocks) :
            heap[blocks[j]].guest_addr = last.arg => j = i

\* C5: the host ranges [host_addr, host_addr + host_size) of any two distinct
\* blocks of the indexes are disjoint, also after compile's overflow path.
C5_HostRangesDisjoint ==
  \A b1, b2 \in Range(blocks) \cup Range(reverse_blocks) :
    b1 # b2 =>
      \/ heap[b1].host_addr + heap[b1].host_size <= heap[b2].host_addr
      \/ heap[b2].host_addr + heap[b2].host_size <= heap[b1].host_addr

\* C5 witness: compile has put a second block right behind the first one
\* and filled the buffer, so that the next assembly overflows
C5_Witness ==
  /\ last.op = "compile"
  /\ ~fatal
  /\ cursor = BufSize
  /\ \E b1, b2 \in Range(reverse_blocks) :
       heap[b1].host_addr + heap[b1].host_size = heap[b2].host_addr

\* the cache after the step
CacheNext ==
  [code |-> code', blocks |-> blocks', reverse_blocks |-> reverse_blocks',
   heap |-> heap', cursor |-> cursor']

\* the flags compile gives the new block at guest address a
MergedFlags(a, f) ==
  LET stale == sh4_cache_get_block(Cache, a)
  IN IF stale = NULL THEN f ELSE f \cup heap[stale].flags

\* what holds when compile(a, f) has returned, having translated gs guest
\* bytes into hs host bytes
C6_Post(a, f, gs, hs) ==
  LET b == sh4_cache_get_block(CacheNext, a)
  IN /\ last'.ret # NULL
     /\ code'[BLOCK_OFFSET(a)] = last'.ret
     /\ b # NULL
     /\ heap'[b] = [guest_addr |-> a, guest_size |-> gs,
                    host_addr |-> last'.ret, host_size |-> hs,
                    flags |-> MergedFlags(a, f)]
     /\ b \in Range(blocks')
     /\ b \in Range(reverse_blocks')

\* C6: when compile(guest_addr, ...) returns, the dispatch slot of guest_addr
\* equals the returned host entry, get_block(guest_addr) returns a block with
\* the guest_addr, guest_size, host_addr, host_size and flags of this
\* compile, and that block is in both indexes.
C6_CompileLinksNewBlock ==
  [][\A a \in GuestAddrs, f \in CallerFlags, gs \in GuestSizes,
        hs \in HostSizes :
       (/\ last'.op = "compile"
        /\ last'.arg = a
        /\ last'.flags = f
        /\ last'.guest_size = gs
        /\ last'.host_size = hs
        /\ ~fatal'
        /\ CompileCode(a, f, gs, hs)) => C6_Post(a, f, gs, hs)]_vars

\* C6 witness: a compile has returned the host entry of a block that does
\* not start the buffer
C6_Witness ==
  /\ last.op = "compile"
  /\ ~fatal
  /\ last.ret > 0
  /\ code[BLOCK_OFFSET(last.arg)] = last.ret

\* the blocks of an index (of the cache after the step) at guest address a
BlocksAtNext(index, a) == {i \in 1 .. Len(index) : heap'[index[i]].guest_addr = a}

\* what holds when compile(a, f) has returned and a stale block was at a
C7_Post(a, f) ==
  LET stale == sh4_cache_get_block(Cache, a)
      b == sh4_cache_get_block(CacheNext, a)
      hit == sh4_cache_lookup_block_reverse(Cache, last.arg)
  IN /\ b # NULL
     /\ heap'[b].flags = f \cup heap[stale].flags
     /\ heap'[b].host_addr = last'.ret
     /\ Cardinality(BlocksAtNext(blocks', a)) = 1
     /\ Cardinality(BlocksAtNext(reverse_blocks', a)) = 1
     /\ (/\ last.op = "exception"
         /\ last.handled
         /\ hit = stale) => SH4_SLOWMEM \in heap'[b].flags

\* C7: if the forward index holds a stale block with the same guest_addr when
\* compile is called, the new block's flags are the caller's flags OR-ed with
\* the stale block's, and the stale block is removed from both indexes; after
\* a handled fastmem fault on the block at A the block of the next compile of
\* A has SLOWMEM.
C7_StaleBlockMerged ==
  [][\A a \in GuestAddrs, f \in CallerFlags, gs \in GuestSizes,
        hs \in HostSizes :
       (/\ last'.op = "compile"
        /\ last'.arg = a
        /\ last'.flags = f
        /\ last'.guest_size = gs
        /\ last'.host_size = hs
        /\ ~fatal'
        /\ sh4_cache_get_block(Cache, a) # NULL
        /\ CompileCode(a, f, gs, hs)) => C7_Post(a, f)]_vars

\* C7 witness: compile(A, FASTMEM) has returned a block that carries the
\* SLOWMEM of the faulted block it replaced
C7_Witness ==
  /\ last.op = "compile"
  /\ ~fatal
  /\ \E b \in Range(blocks) :
       /\ heap[b].guest_addr = last.arg
       /\ heap[b].flags = {SH4_FASTMEM, SH4_SLOWMEM}
       /\ SlotOf(b) = heap[b].host_addr

\* what holds when the handler has handled a fault at pc inside block b
C8_Post(b) ==
  /\ last'.handled
  /\ code'[BLOCK_OFFSET(heap[b].guest_addr)] = default_code
  /\ heap'[b] = [heap[b] EXCEPT !.flags = @ \cup {SH4_SLOWMEM}]
  /\ SH4_SLOWMEM \in heap'[b].flags
  /\ b \in Range(blocks')
  /\ b \in Range(reverse_blocks')

\* C8: when the exception handler finds the owning block and the backend
\* accepts the fault, the handler returns true, the block's dispatch slot is
\* the default trampoline, its flags include SLOWMEM, and the block is still
\* in both indexes.
C8_HandledFaultUnlinks ==
  [][\A pc \in HostPCs :
       \A b \in Range(reverse_blocks) :
         (/\ last'.op = "exception"
          /\ last'.arg = pc
          /\ HostCovers(heap[b], pc)
          /\ HandleException(pc, TRUE)) => C8_Post(b)]_vars

\* C8 witness: a fault inside a block was handled
C8_Witness ==
  /\ last.op = "exception"
  /\ last.handled
  /\ \E b \in Range(blocks) \cap Range(reverse_blocks) :
       /\ HostCovers(heap[b], last.arg)
       /\ SlotOf(b) = default_code
       /\ SH4_SLOWMEM \in heap[b].flags

\* no block of the reverse index has pc in its host range
NoOwner(pc) == \A b \in Range(reverse_blocks) : ~HostCovers(heap[b], pc)

\* C9: for a fault whose host PC lies inside the host range of no block of
\* the reverse index, or which the backend declines, the handler returns
\* false and changes no dispatch slot, no block flag and no index.
C9_ForeignFaultDeclined ==
  [][\A pc \in HostPCs, accept \in BOOLEAN :
       (/\ last'.op = "exception"
        /\ last'.arg = pc
        /\ NoOwner(pc) \/ ~accept
        /\ HandleException(pc, accept)) =>
         /\ ~last'.handled
         /\ UNCHANGED <<code, blocks, reverse_blocks, heap>>]_vars

\* C10: after remove_blocks(guest_addr) no block whose guest footprint
\* contains guest_addr is left in either index, and the dispatch slot of
\* every block it removed is the default trampoline.
C10_RemoveBlocksRemovesCovering ==
  [][\A a \in GuestBytes :
       (/\ last'.op = "remove_blocks"
        /\ last'.arg = a
        /\ RemoveBlocks(a)) =>
         /\ \A b \in Range(blocks') \cup Range(reverse_blocks') :
              ~Covers(heap'[b], a)
         /\ \A b \in Range(blocks) \ Range(blocks') :
              code'[BLOCK_OFFSET(heap[b].guest_addr)] = default_code]_vars

\* C10 witness: remove_blocks has removed blocks and left every slot default
C10_Witness ==
  /\ last.op = "remove_blocks"
  /\ Stranded
  /\ \A b \in Range(blocks) : ~Covers(heap[b], last.arg)
  /\ \A i \in DOMAIN code : code[i] = default_code

\* C11: remove_blocks(guest_addr) removes exactly the blocks whose guest
\* footprint contains guest_addr: a block whose footprint does not contain
\* it, a block that starts lower and ends before it included, stays in both
\* indexes with its dispatch slot and its flags unchanged.
C11_RemoveBlocksRemovesOnlyCovering ==
  [][\A a \in GuestBytes :
       (/\ last'.op = "remove_blocks"
        /\ last'.arg = a
        /\ RemoveBlocks(a)) =>
         \A b \in Range(blocks) :
           IF Covers(heap[b], a)
           THEN /\ b \notin Range(blocks')
                /\ b \notin Range(reverse_blocks')
           ELSE /\ b \in Range(blocks')
                /\ b \in Range(reverse_blocks')
                /\ heap'[b] = heap[b]
                /\ code'[BLOCK_OFFSET(heap[b].guest_addr)] = SlotOf(b)]_vars

\* C12: after unlink_blocks returns, from any reachable state, every
\* dispatch slot equals the default trampoline.
C12_UnlinkBlocksResetsEverySlot ==
  last.op = "unlink_blocks" =>
    \A i \in DOMAIN code : code[i] = default_code

\* C12 witness: unlink_blocks has returned with two blocks in the index that
\* no fastmem fault had unlinked before
C12_Witness ==
  /\ last.op = "unlink_blocks"
  /\ \E b1, b2 \in Range(blocks) :
       /\ b1 # b2
       /\ SH4_SLOWMEM \notin heap[b1].flags \cup heap[b2].flags
       /\ SlotOf(b1) = default_code
       /\ SlotOf(b2) = default_code

\* C13: unlink_blocks leaves the forward index, the reverse index, every
\* block's fields and the backend's code buffer unchanged; only dispatch
\* slots change.
C13_UnlinkBlocksKeepsBlocks ==
  [][(/\ last'.op = "unlink_blocks"
      /\ UnlinkBlocks) =>
        UNCHANGED <<blocks, reverse_blocks, heap, cursor>>]_vars

\* C13 witness: unlink_blocks has returned and the blocks it unlinked are
\* still in both indexes, their host code still in a full buffer
C13_Witness ==
  /\ last.op = "unlink_blocks"
  /\ cursor = BufSize
  /\ ~Stranded
  /\ blocks # <<>>
  /\ \A b \in Range(blocks) :
       /\ b \in Range(reverse_blocks)
       /\ heap[b].flags = {SH4_FASTMEM}

\* C14: after clear_blocks both indexes are empty, every dispatch slot
\* equals the default trampoline, and the backend has been reset, so the
\* next emission starts at offset 0 of its buffer.
C14_ClearBlocksEmptiesCache ==
  last.op = "clear_blocks" =>
    /\ blocks = <<>>
    /\ reverse_blocks = <<>>
    /\ \A i \in DOMAIN code : code[i] = default_code
    /\ \A hs \in HostSizes :
         AssembleCode(cursor, hs).host_addr \in {NULL, 0}
    /\ \E hs \in HostSizes : AssembleCode(cursor, hs).host_addr = 0

\* C14 witness: clear_blocks has returned from a cache that held blocks or
\* emitted code
C14_Witness ==
  /\ last.op = "clear_blocks"
  /\ last.changed
  /\ blocks = <<>>
  /\ cursor = Reset

\* C15: when the first assemble of a compile returns null, compile clears
\* the whole cache and assembles exactly once more; if the retry succeeds
\* the indexes hold only the new block and its slot is the only non-default
\* slot; if the retry returns null too, compile fails fatally and returns
\* no host entry.
C15_OverflowClearsAndRetriesOnce ==
  (last.op = "compile" /\ last.overflow) =>
    IF fatal
    THEN /\ last.ret = NULL
         /\ blocks = <<>>
         /\ reverse_blocks = <<>>
         /\ \A i \in DOMAIN code : code[i] = default_code
    ELSE /\ Len(blocks) = 1
         /\ reverse_blocks = blocks
         /\ heap[blocks[1]].guest_addr = last.arg
         /\ heap[blocks[1]].host_addr = Reset
         /\ cursor = Reset + last.host_size
         /\ last.ret = heap[blocks[1]].host_addr
         /\ \A i \in DOMAIN code :
              code[i] # default_code <=> i = BLOCK_OFFSET(last.arg)

\* C15 witness: a compile overflowed the buffer, the retry fitted, and the
\* new block is alone in the cache
C15_Witness ==
  /\ last.op = "compile"
  /\ last.overflow
  /\ ~fatal
  /\ Len(blocks) = 1
  /\ SlotOf(blocks[1]) = last.ret

\* what C16 compares: the dispatch table and the blocks of the two indexes
\* in index order, without the backend cursor and the identity of the block
\* objects
Tables(c) ==
  [code |-> c.code,
   blocks |-> [i \in 1 .. Len(c.blocks) |-> c.heap[c.blocks[i]]],
   reverse_blocks |->
     [i \in 1 .. Len(c.reverse_blocks) |-> c.heap[c.reverse_blocks[i]]]]

\* compile(guest_addr) followed by remove_blocks(guest_addr) on cache c
CompileThenRemove(c, guest_addr, flags, guest_size, host_size) ==
  LET r == sh4_cache_compile_code_inner(c, guest_addr, flags,
                                        guest_size, host_size)
  IN [fatal |-> r.fatal, overflow |-> r.overflow,
      cache |-> sh4_cache_remove_blocks(r.cache, guest_addr)]

C17_SecondFaultChangesNothing ==
  [][\A pc \in HostPCs :
       (/\ last'.op = "exception"
        /\ last'.arg = pc
        /\ last'.handled
        /\ last.op = "exception"
        /\ last.handled
        /\ sh4_cache_lookup_block_reverse(Cache, pc)
             = sh4_cache_lookup_block_reverse(Cache, last.arg)
        /\ HandleException(pc, TRUE)) =>
         UNCHANGED <<code, blocks, reverse_blocks, heap, cursor>>]_vars

\* C17 witness: the handler has handled two faults of one block in a row,
\* and the block is unlinked and carries SLOWMEM
C17_Witness ==
  /\ last.op = "exception"
  /\ last.handled
  /\ fault.again
  /\ LET block == sh4_cache_lookup_block_reverse(Cache, last.arg)
     IN /\ SlotOf(block) = default_code
        /\ heap[block].flags = {SH4_FASTMEM, SH4_SLOWMEM}

\* the step compiles guest address a, which a handled fault had sent back to
\* compile, and returns
RecompilesFaulted(a) ==
  /\ last'.op = "compile"
  /\ last'.arg = a
  /\ ~fatal'
  /\ a \in fault.pending

\* after the step one block is at a in both indexes, and slot a holds its
\* host address
OneLinkedBlockAt(a) ==
  LET new == sh4_cache_get_block(CacheNext, a)
  IN /\ new # NULL
     /\ Cardinality(BlocksAtNext(blocks', a)) = 1
     /\ Cardinality(BlocksAtNext(reverse_blocks', a)) = 1
     /\ code'[BLOCK_OFFSET(a)] = heap'[new].host_addr
     /\ last'.ret = heap'[new].host_addr

\* C18 as claimed: after a successfully handled fastmem fault of the block
\* at guest address A, the next dispatch of A finds the default trampoline
\* and so goes through compile, never into the faulted host code, and that
\* compile removes the old block and links a new block at A whose flags
\* contain SLOWMEM.
C18_FaultedBlockComesBackSlow ==
  [][/\ \A a \in fault'.pending : code'[BLOCK_OFFSET(a)] = default_code
     /\ \A a \in GuestAddrs :
          RecompilesFaulted(a) =>
            /\ sh4_cache_get_block(Cache, a) # NULL
            /\ OneLinkedBlockAt(a)
            /\ SH4_SLOWMEM \in heap'[sh4_cache_get_block(CacheNext, a)].flags]_vars

\* C18 as amended: after a successfully handled fastmem fault of the block
\* at guest address A, the next dispatch of A finds the default trampoline
\* and so goes through compile; if the faulted block is still in the forward
\* index then, that compile removes it and links a new block at A whose
\* flags contain SLOWMEM; if a remove_blocks, a clear_blocks or an overflow
\* of the code buffer has removed it in between, the new block carries the
\* caller's flags only.
C18_FaultedBlockComesBackSlowIfKept ==
  [][/\ \A a \in fault'.pending : code'[BLOCK_OFFSET(a)] = default_code
     /\ \A a \in GuestAddrs :
          RecompilesFaulted(a) =>
            LET old == sh4_cache_get_block(Cache, a)
                new == sh4_cache_get_block(CacheNext, a)
            IN /\ OneLinkedBlockAt(a)
               /\ IF old # NULL
                  THEN /\ SH4_SLOWMEM \in heap[old].flags
                       /\ SH4_SLOWMEM \in heap'[new].flags
                  ELSE heap'[new].flags = last'.flags]_vars

\* C18 witness: a block that had faulted was compiled again for fastmem and
\* is linked with SLOWMEM among its flags
C18_Witness ==
  /\ last.op = "compile"
  /\ fault.redo = "merged"
  /\ last.flags = {SH4_FASTMEM}
  /\ LET new == sh4_cache_get_block(Cache, last.arg)
     IN /\ SlotOf(new) = last.ret
        /\ heap[new].flags = {SH4_FASTMEM, SH4_SLOWMEM}

\* the end test of C19 for the instruction at address a of the guest memory:
\* it is INVALID, or DELAYED with an INVALID delay slot, or it or its delay
\* slot has BRANCH, SET_FPSCR or SET_SR
ClaimedEnd(a) ==
  LET def == sh4_get_opdef(space, a)
      delay_def == sh4_get_opdef(space, a + 2)
      stop == {SH4_FLAG_BRANCH, SH4_FLAG_SET_FPSCR, SH4_FLAG_SET_SR}
  IN \/ SH4_FLAG_INVALID \in def
     \/ def \cap stop # {}
     \/ /\ SH4_FLAG_DELAYED \in def
        /\ \/ SH4_FLAG_INVALID \in delay_def
           \/ delay_def \cap stop # {}

\* the size of the block that starts size bytes before a and ends at the
\* first instruction from a on that passes the end test of C19
RECURSIVE ClaimedSize(_, _)
ClaimedSize(a, size) ==
  LET n == IF SH4_FLAG_DELAYED \in sh4_get_opdef(space, a) THEN 4 ELSE 2
  IN IF size >= SizeCap THEN size
     ELSE IF ClaimedEnd(a) THEN size + n
     ELSE ClaimedSize(uint32_t(a + n), size + n)

\* C19: analyze ends the block at the first instruction, walking from
\* guest_addr and counting a DELAYED instruction together with its delay
\* slot, that is INVALID, or DELAYED with an INVALID delay slot, or that has,
\* or whose delay slot has, BRANCH, SET_FPSCR or SET_SR: no earlier and no
\* later, whatever the flags of the opcodes.
C19_AnalyzeEndsAtFirstEnd ==
  translate.at = "analyzed" =>
    translate.guest_size = ClaimedSize(translate.guest_addr, 0)

\* C20: after translate the last IR instruction of the block is an
\* unconditional BRANCH or a FALLBACK whose guest opcode carries BRANCH; when
\* the emitted IR did not already end that way exactly one branch to the
\* constant guest_addr + guest_size is appended after the previous last
\* instruction, and no branch is appended otherwise.
C20_BlockEndsInBranch ==
  [][(translate.at = "emit" /\ translate'.at \in {"done", "fatal"}) =>
       LET emitted == translate.ir
           final == translate'.ir
           fallthrough == ir_branch(uint32_t(translate.guest_addr
                                               + translate.guest_size))
       IN /\ translate'.at = "done"
          /\ final # <<>>
          /\ ends_in_branch(final[Len(final)])
          /\ IF emitted # <<>> /\ ends_in_branch(emitted[Len(emitted)])
             THEN final = emitted
             ELSE final = Append(emitted, fallthrough)]_vars

\* the emission loop of translate_code has run to its end
EmissionOver ==
  /\ translate.at = "emit"
  /\ ~(translate.addr < translate.end)

\* C21: the emission walk of translate replays the walk of analyze: the emit
\* callback is called once for each instruction analyze counted that is no
\* delay slot, at the same addresses, the walk advances 4 bytes past a
\* DELAYED instruction and 2 otherwise, and it stops with its address equal
\* to guest_addr + guest_size, for every guest_addr of the address space,
\* blocks whose end wraps past the top of it included.
C21_EmissionReplaysAnalysis ==
  EmissionOver =>
    /\ translate.emitted = translate.analyzed
    /\ translate.addr = uint32_t(translate.guest_addr + translate.guest_size)
    /\ \A i \in 1 .. Len(translate.emitted) :
         LET a == translate.emitted[i]
             n == IF SH4_FLAG_DELAYED \in sh4_get_opdef(space, a)
                  THEN 4 ELSE 2
             next == IF i < Len(translate.emitted)
                     THEN translate.emitted[i + 1] ELSE translate.addr
         IN next = uint32_t(a + n)

\* C22: get_block(guest_addr) returns a block if and only if a block whose
\* guest_addr equals the argument exactly is in the forward index, and then
\* returns that block; it never returns a block that merely covers the
\* address, and it changes no cache state.
C22_GetBlockIsExact ==
  [][last'.op = "get_block" =>
       \A a \in GuestBytes :
         (last'.arg = a /\ GetBlock(a)) =>
           LET exact == {b \in Range(blocks) : heap[b].guest_addr = a}
           IN /\ last'.ret # NULL <=> exact # {}
              /\ last'.ret # NULL => last'.ret \in exact
              /\ UNCHANGED <<code, blocks, reverse_blocks, heap, cursor,
                             fatal>>]_vars

\* C22 witness: get_block has returned null for an address that a block of
\* the index covers without starting at it
C22_Witness ==
  /\ last.op = "get_block"
  /\ last.ret = NULL
  /\ \E b \in Range(blocks) :
       /\ Covers(heap[b], last.arg)
       /\ heap[b].guest_addr < last.arg

\* C23: the flags of a block created by compile are the flags the caller
\* passed plus at most SLOWMEM: the cache never adds FASTMEM (or DOUBLE_PR,
\* DOUBLE_SZ) that the caller did not pass, in particular not when it merges
\* a stale block left by unlink_blocks or by a fastmem fault.
C23_CompileAddsOnlySlowmem ==
  [][(last'.op = "compile" /\ ~fatal') =>
       \A a \in GuestAddrs, f \in CallerFlags :
         (last'.arg = a /\ last'.flags = f
          /\ \E gs \in GuestSizes, hs \in HostSizes : CompileCode(a, f, gs, hs)) =>
           LET new == sh4_cache_get_block(CacheNext, a)
           IN /\ new # NULL
              /\ heap'[new].flags \subseteq f \cup {SH4_SLOWMEM}]_vars

\* C24: compile called for a guest_addr whose dispatch slot is not the
\* default trampoline (a block is linked there) fails with a fatal
\* assertion before any index, block or dispatch slot is modified and
\* before the frontend or the backend is invoked.
C24_CompileOfLinkedSlotIsFatal ==
  [][last'.op = "compile" =>
       \A a \in GuestAddrs :
         (/\ last'.arg = a
          /\ code[BLOCK_OFFSET(a)] # default_code
          /\ \E f \in CallerFlags, gs \in GuestSizes, hs \in HostSizes :
               CompileCode(a, f, gs, hs)) =>
           /\ fatal'
           /\ last'.ret = NULL
           /\ UNCHANGED <<code, blocks, reverse_blocks, heap, cursor>>
           /\ UNCHANGED frontend_vars]_vars

\* C24 witness: a compile has died on the slot of a block that is still in
\* both indexes and linked
C24_Witness ==
  /\ fatal
  /\ last.op = "compile"
  /\ ~last.overflow
  /\ LET linked == sh4_cache_get_block(Cache, last.arg)
     IN /\ linked # NULL
        /\ linked \in Range(reverse_blocks)
        /\ SlotOf(linked) = heap[linked].host_addr

\* C25: analyze terminates with a finite guest_size for every starting
\* guest_addr and every guest memory, a memory without any INVALID, BRANCH,
\* SET_FPSCR or SET_SR instruction at or after guest_addr included. The loop
\* of the analysis decides on addr and the memory alone and the memory does
\* not change, so it terminates exactly when it never begins an iteration
\* at an address at which it has begun one before.
C25_AnalyzeTerminates ==
  translate.at = "analyze" =>
    \A i \in 1 .. Len(translate.analyzed) :
      translate.analyzed[i] # translate.addr

\* C26: when analyze meets a DELAYED instruction whose delay slot is itself
\* DELAYED it stops with a fatal check failure and produces no block extent;
\* otherwise the delay-slot word is in the same block as its DELAYED
\* instruction: guest_size and num_instrs count both.
C26_DelaySlotCheckedAndCounted ==
  [][(translate.at = "analyze" /\ translate' # translate) =>
       LET def == sh4_get_opdef(space, translate.addr)
           delay_def == sh4_get_opdef(space, translate.addr + 2)
       IN SH4_FLAG_DELAYED \in def =>
            IF SH4_FLAG_DELAYED \in delay_def
            THEN translate'.at = "fatal"
            ELSE /\ translate'.at \in {"analyze", "analyzed"}
                 /\ translate'.guest_size = translate.guest_size + 4
                 /\ translate'.num_instrs = translate.num_instrs + 2
                 /\ translate'.addr = uint32_t(translate.addr + 4)]_vars

\* C26 witness: the analysis has died on a DELAYED instruction in the delay
\* slot of the DELAYED instruction that opens the block
C26_Witness ==
  /\ translate.at = "fatal"
  /\ translate.analyzed = <<translate.guest_addr>>
  /\ SH4_FLAG_DELAYED \in sh4_get_opdef(space, translate.guest_addr)
  /\ SH4_FLAG_DELAYED \in sh4_get_opdef(space, translate.guest_addr + 2)
  /\ translate.emitted = <<>>

\* C27: the forward comparator orders blocks by their unsigned guest_addr,
\* for every pair of blocks: its result is negative, zero or positive
\* exactly when lhs.guest_addr is below, equal to or above rhs.guest_addr,
\* pairs half the address width or more apart included.
C27_CmpOrdersByGuestAddr ==
  compare.at = "return" =>
    /\ compare.ret < 0 <=> compare.lhs.guest_addr < compare.rhs.guest_addr
    /\ compare.ret = 0 <=> compare.lhs.guest_addr = compare.rhs.guest_addr
    /\ compare.ret > 0 <=> compare.lhs.guest_addr > compare.rhs.guest_addr

\* C28: the code buffer of the backend is reclaimed only by clear_blocks,
\* called directly or by compile on overflow: remove_blocks, unlink_blocks,
\* get_block and the exception handler leave the emission cursor where it
\* is, so the host bytes of an unlinked or removed block stay taken until
\* the next clear_blocks.
C28_OnlyClearBlocksReclaims ==
  [][/\ last'.op \in {"remove_blocks", "unlink_blocks", "get_block",
                      "exception"} => cursor' = cursor
     /\ cursor' < cursor =>
          \/ last'.op = "clear_blocks"
          \/ last'.op = "compile" /\ last'.overflow
     /\ (last'.op = "compile" /\ ~last'.overflow) => cursor' >= cursor]_vars

\* C28 witness: the only block was removed and then looked up: its host
\* bytes fill the buffer and belong to no block
C28_Witness ==
  /\ last.op = "get_block"
  /\ last.ret = NULL
  /\ blocks = <<>>
  /\ Stranded
  /\ cursor = BufSize

====
